---- MODULE Spec2Model ----
(***************************************************************************)
(* Roster / topology coordinator of the useWebRTC hook                     *)
(* (src/src/hooks/useWebRTC.ts): one creator and two joiners of one room,  *)
(* the media and data links between them, the signaling messages in        *)
(* flight, and the handlers the hook installs on the peer handle, on each  *)
(* media call and on each data link.                                       *)
(*                                                                         *)
(* Handlers are closures.  The handlers installed by the mount effect      *)
(* (deps [localStream, roomId, isCreator]) read `participants` and         *)
(* `networkTopology` of the render in which the effect ran; the functions  *)
(* returned to the UI (setTopology, reconnectAll) are those of the latest  *)
(* render.  The model keeps, for every installed handler, the values its   *)
(* closure captured.                                                       *)
(***************************************************************************)
EXTENDS Integers, Sequences, FiniteSets, TLC

\* ------------------------------------------------------------- bounds
MaxMedia == 4      \* media calls ever placed in one run
MaxData  == 4      \* data links ever dialled in one run
MaxQueue == 2      \* messages in flight in one direction of one data link
MaxOps   == 1      \* UI calls, timer ticks, link failures and departures in one run
MaxSwitch == 2     \* setTopology calls in one run of the topology round trip
MaxTeardown == 2   \* departures and later timer ticks in one run of the teardown
MaxSessions == 2   \* sessions started in one run of the id model
MaxNow == 11       \* last clock reading of the id model
MaxSupersede == 2  \* UI calls and link failures in one run of the redial scenario

\* ------------------------------------------------------------- peers
CreatorId == "r-creator"
Joiners == {"r-1", "r-2"}
Peers == {CreatorId} \cup Joiners

\* ------------------------------------------------------------- peer ids
\* Strings whose characters matter are sequences of characters.
Marker == <<"-", "c", "r", "e", "a", "t", "o", "r">>

\* s.includes(sub)
includes(s, sub) ==
  \E i \in 0..(Len(s) - Len(sub)) : SubSeq(s, i + 1, i + Len(sub)) = sub

\* `${n}` of a non-negative integer: its decimal digits
RECURSIVE toDigits(_)
toDigits(n) ==
  LET digit(k) == <<"0", "1", "2", "3", "4", "5", "6", "7", "8", "9">>[k + 1]
  IN IF n < 10 THEN <<digit(n)>> ELSE toDigits(n \div 10) \o <<digit(n % 10)>>

\* peerId = isCreator ? `${roomId}-creator` : `${roomId}-${Date.now()}`
sessionPeerId(roomId, creator, t) ==
  IF creator THEN roomId \o Marker ELSE roomId \o <<"-">> \o toDigits(t)

\* room ids a user can enter in the join form (any non-empty trimmed text)
RoomIds == {<<"r">>, <<"q">>, <<"r">> \o Marker}

\* the hook's isCreator prop of the session whose peer id is p
isCreator(p) == p = CreatorId

\* id.includes("-creator")
isCreatorPeer(id) == id = CreatorId

Topologies == {"mesh", "star"}

VARIABLES
  pstate,     \* peer handle of each session: "init" (not open), "open", "down"
  topology,   \* networkTopology state of the latest render
  effTopo,    \* networkTopology captured by the mount effect's closures
  roster,     \* participants state: a list of Participant
  registry,   \* connectionsRef.current: peer id -> media / data link (0: none)
  media,      \* the media calls ever placed, by link number
  data,       \* the data links ever dialled, by link number
  ops,        \* UI calls, timer ticks and link failures so far
  awaiting,   \* history: peer-list messages a joiner that went star -> mesh
              \* still has to handle up to the creator's next one (0: none)
  error,      \* error state: the message shown to the user, or NoError
  now,        \* Date.now(): the clock reading, in milliseconds
  sessions    \* the sessions started so far, of any room: role, room id, peer id

vars == <<pstate, topology, effTopo, roster, registry, media, data, ops, awaiting, error,
          now, sessions>>

\* useState<string | null>(null)
NoError == "null"

NoEntry == [media |-> 0, data |-> 0]

\* ------------------------------------------------------------- state
\* The part of the state the handlers read and write, as one value: the
\* handlers below are functions from such a value to the next one.
St == [registry |-> registry, roster |-> roster, media |-> media, data |-> data]

Commit(S) ==
  /\ Len(S.media) <= MaxMedia
  /\ Len(S.data) <= MaxData
  /\ \A d \in 1..Len(S.data) : Len(S.data[d].qft) <= MaxQueue /\ Len(S.data[d].qtf) <= MaxQueue
  /\ registry' = S.registry
  /\ roster' = S.roster
  /\ media' = S.media
  /\ data' = S.data

rosterIds(r) == [i \in 1..Len(r) |-> r[i].id]

inRoster(r, id) == \E i \in 1..Len(r) : r[i].id = id

\* prev.filter(keep)
RECURSIVE filterRoster(_, _)
filterRoster(r, keepIds) ==
  IF r = <<>> THEN <<>>
  ELSE IF Head(r).id \in keepIds THEN <<Head(r)>> \o filterRoster(Tail(r), keepIds)
  ELSE filterRoster(Tail(r), keepIds)

\* ------------------------------------------------------------- links
\* the other end of a link
otherEnd(l, p) == IF l.from = p THEN l.to ELSE l.from

\* status of p's end of a link
endStatus(l, p) == IF l.from = p THEN l.fs ELSE l.ts

\* peer.call(peerId, stream) by the function named via, which installs the
\* caller's handlers: the call rings at the callee until its "call" event is
\* handled
newCall(p, peerId, via) ==
  [from |-> p, to |-> peerId, fs |-> "live", ts |-> "ringing", via |-> via]

\* peer.connect(peerId) followed by handleDataConnection of a render whose
\* networkTopology is cap
newDataConn(p, peerId, cap) ==
  [from |-> p, to |-> peerId, fs |-> "connecting", ts |-> "pending",
   cap |-> cap, qft |-> <<>>, qtf |-> <<>>]

\* mediaConnection.close() at p: p's end is closed, the remote end has a
\* close event to handle (a call that never rang through just goes away)
closedMedia(l, p) ==
  IF endStatus(l, p) = "dead" THEN l
  ELSE IF l.from = p
    THEN [l EXCEPT !.fs = "dead",
                   !.ts = IF @ = "ringing" THEN "dead" ELSE IF @ = "live" THEN "closing" ELSE @]
    ELSE [l EXCEPT !.ts = "dead", !.fs = IF @ = "live" THEN "closing" ELSE @]

\* dataConnection.close() at p: what was sent to p and not handled is lost
closedData(l, p) ==
  IF endStatus(l, p) = "dead" THEN l
  ELSE IF l.from = p
    THEN [l EXCEPT !.fs = "dead", !.qtf = <<>>,
                   !.ts = IF @ = "pending" THEN "dead" ELSE IF @ = "open" THEN "closing" ELSE @]
    ELSE [l EXCEPT !.ts = "dead", !.qft = <<>>,
                   !.fs = IF @ = "connecting" THEN "dead" ELSE IF @ = "open" THEN "closing" ELSE @]

closeMedia(S, m, p) ==
  IF m = 0 THEN S ELSE [S EXCEPT !.media[m] = closedMedia(@, p)]

closeData(S, d, p) ==
  IF d = 0 THEN S ELSE [S EXCEPT !.data[d] = closedData(@, p)]

\* dataConnection.open as p reads it: the flag falls when p's close event fires
isOpen(S, d, p) ==
  d # 0 /\ endStatus(S.data[d], p) \in {"open", "closing"}

\* dataConnection.send(msg) at p: queued for the remote end unless that end
\* is gone
send(S, d, p, msg) ==
  LET l == S.data[d] IN
  IF l.from = p
    THEN IF l.ts \in {"pending", "open"} /\ l.fs = "open"
           THEN [S EXCEPT !.data[d].qft = Append(@, msg)] ELSE S
    ELSE IF l.fs \in {"connecting", "open"} /\ l.ts = "open"
           THEN [S EXCEPT !.data[d].qtf = Append(@, msg)] ELSE S

\* ------------------------------------------------------------- handlers
\* mutant: the updater appends without looking for the id
addParticipantNoCheck(S, p, id, flag) ==
  [S EXCEPT !.roster[p] = Append(@, [id |-> id, isCreator |-> flag])]

\* setParticipants(prev => prev.some(p => p.id === id) ? prev : [...prev, {..}])
addParticipant(S, p, id, flag) ==
  IF inRoster(S.roster[p], id) THEN S
  ELSE [S EXCEPT !.roster[p] = Append(@, [id |-> id, isCreator |-> flag])]

\* handlePeerDisconnection
handlePeerDisconnection(S, p, peerId) ==
  [S EXCEPT !.roster[p] = filterRoster(@, {q \in Peers : q # peerId}),
            !.registry[p][peerId] = NoEntry]

\* mutant: a peer counts as connected once it is in the roster
establishPeerConnectionRosterGuard(S, p, peerId, cap) ==
  IF pstate[p] # "open" \/ peerId = p THEN S
  ELSE IF inRoster(S.roster[p], peerId) THEN S
  ELSE
    LET S1 == IF S.registry[p][peerId].data = 0
                THEN [S EXCEPT !.data = Append(@, newDataConn(p, peerId, cap))]
                ELSE S
    IN [S1 EXCEPT !.media = Append(@, newCall(p, peerId, "establishPeerConnection")),
                  !.registry[p][peerId].media = Len(S1.media) + 1]

\* mutant: the dialled peer becomes a participant when the call is placed
establishPeerConnectionAddsParticipant(S, p, peerId, cap) ==
  IF pstate[p] # "open" \/ peerId = p THEN S
  ELSE IF S.registry[p][peerId].media # 0 THEN S
  ELSE
    LET S1 == IF S.registry[p][peerId].data = 0
                THEN [S EXCEPT !.data = Append(@, newDataConn(p, peerId, cap))]
                ELSE S
    IN addParticipant(
         [S1 EXCEPT !.media = Append(@, newCall(p, peerId, "establishPeerConnection")),
                    !.registry[p][peerId].media = Len(S1.media) + 1],
         p, peerId, isCreatorPeer(peerId))

\* mutant: a peer that already has a media link is dialled again
establishPeerConnectionNoGuard(S, p, peerId, cap) ==
  IF pstate[p] # "open" \/ peerId = p THEN S
  ELSE
    LET S1 == IF S.registry[p][peerId].data = 0
                THEN [S EXCEPT !.data = Append(@, newDataConn(p, peerId, cap))]
                ELSE S
    IN [S1 EXCEPT !.media = Append(@, newCall(p, peerId, "establishPeerConnection")),
                  !.registry[p][peerId].media = Len(S1.media) + 1]

\* establishPeerConnection of a render whose networkTopology is cap
establishPeerConnection(S, p, peerId, cap) ==
  IF pstate[p] # "open" \/ peerId = p THEN S
  ELSE IF S.registry[p][peerId].media # 0 THEN S
  ELSE
    LET S1 == IF S.registry[p][peerId].data = 0
                THEN [S EXCEPT !.data = Append(@, newDataConn(p, peerId, cap))]
                ELSE S
    IN [S1 EXCEPT !.media = Append(@, newCall(p, peerId, "establishPeerConnection")),
                  !.registry[p][peerId].media = Len(S1.media) + 1]

\* connectToCreator of a render whose networkTopology is cap
connectToCreator(S, p, cap) ==
  [S EXCEPT !.data = Append(@, newDataConn(p, CreatorId, cap)),
            !.media = Append(@, newCall(p, CreatorId, "connectToCreator")),
            !.registry[p][CreatorId] = [data |-> Len(S.data) + 1, media |-> Len(S.media) + 1]]

\* ------------------------------------------------------------- messages
Msg(type, peers, peerId) == [type |-> type, peers |-> peers, peerId |-> peerId]

PeerListMsg(peers) == Msg("peer-list", peers, "")
NewPeerMsg(peerId) == Msg("new-peer", <<>>, peerId)
RequestPeerListMsg == Msg("request-peer-list", <<>>, "")
PeerDisconnectMsg(peerId) == Msg("peer-disconnect", <<>>, peerId)

\* the chat envelope of the room page
ChatMsg == Msg("chat-message", <<>>, "")

\* a `peers` field that is not an array (what it holds instead is never read)
NotAnArray == <<"not-an-array">>

\* Array.isArray(data.peers)
isArray(peers) == peers # NotAnArray

\* Object.keys(connectionsRef.current)
registryKeys(S, p) == {q \in Peers : S.registry[p][q] # NoEntry}

\* `participants` as the closures of the mount effect read it: the effect runs
\* once, when the local stream arrives, and no participant exists before it
effectParticipants == <<>>

\* [peerRef.current.id, ...participants.map(p => p.id)]
allPeers(p, participants) == <<p>> \o rosterIds(participants)

\* forEach over the registry: send msg on every registered data link that is open
RECURSIVE sendEach(_, _, _, _)
sendEach(S, p, ids, msg) ==
  IF ids = {} THEN S
  ELSE LET id == CHOOSE x \in ids : TRUE
           d == S.registry[p][id].data
       IN sendEach(IF isOpen(S, d, p) THEN send(S, d, p, msg) ELSE S, p, ids \ {id}, msg)

\* mutant: the list goes to one registered peer only
broadcastPeerListToOne(S, p, participants) ==
  IF ~isCreator(p) \/ pstate[p] = "init" \/ registryKeys(S, p) = {} THEN S
  ELSE sendEach(S, p, {CHOOSE q \in registryKeys(S, p) : TRUE},
                PeerListMsg(allPeers(p, participants)))

\* broadcastPeerList of a render whose participants value is the one given
broadcastPeerList(S, p, participants) ==
  IF ~isCreator(p) \/ pstate[p] = "init" THEN S
  ELSE sendEach(S, p, registryKeys(S, p), PeerListMsg(allPeers(p, participants)))

\* handlePeerList, first loop: dial every listed peer but self and the creator
RECURSIVE dialEach(_, _, _, _)
dialEach(S, p, peerIds, cap) ==
  IF peerIds = <<>> THEN S
  ELSE LET id == Head(peerIds)
           S1 == IF id = p \/ isCreatorPeer(id) THEN S
                 ELSE IF cap = "mesh" \/ isCreator(p)
                   THEN establishPeerConnection(S, p, id, cap)
                   ELSE S
       IN dialEach(S1, p, Tail(peerIds), cap)

\* handlePeerList, second loop: close and forget the given peers
RECURSIVE dropPeers(_, _, _)
dropPeers(S, p, ids) ==
  IF ids = {} THEN S
  ELSE LET id == CHOOSE x \in ids : TRUE
           e == S.registry[p][id]
           S1 == closeData(closeMedia(S, e.media, p), e.data, p)
           S2 == [S1 EXCEPT !.registry[p][id] = NoEntry,
                            !.roster[p] = filterRoster(@, {q \in Peers : q # id})]
       IN dropPeers(S2, p, ids \ {id})

\* handlePeerList of a render whose networkTopology is cap
handlePeerList(S, p, peerIds, cap) ==
  IF pstate[p] # "open" THEN S
  ELSE LET S1 == dialEach(S, p, peerIds, cap)
       IN IF cap = "star" /\ ~isCreator(p)
            THEN dropPeers(S1, p, {q \in registryKeys(S1, p) : ~isCreatorPeer(q)})
            ELSE S1

\* mutant: the creator announces the newcomer to the participants its open
\* handler sees
onDataOpenAnnounceParticipants(S, d, p) ==
  LET peer == otherEnd(S.data[d], p)
      S1 == [S EXCEPT !.registry[p][peer].data = d]
  IN IF ~isCreator(p) THEN S1
     ELSE sendEach(send(S1, d, p, PeerListMsg(allPeers(p, effectParticipants))),
                   p, {q \in registryKeys(S1, p) \ {peer} : inRoster(effectParticipants, q)},
                   NewPeerMsg(peer))

\* mutant: whoever sees a data link open greets with a list and announces
onDataOpenAnyoneGreets(S, d, p) ==
  LET peer == otherEnd(S.data[d], p)
      S1 == [S EXCEPT !.registry[p][peer].data = d]
  IN sendEach(send(S1, d, p, PeerListMsg(allPeers(p, effectParticipants))),
              p, registryKeys(S1, p) \ {peer}, NewPeerMsg(peer))

\* mutant: the creator announces the newcomer to the newcomer as well
onDataOpenAnnounceAll(S, d, p) ==
  LET peer == otherEnd(S.data[d], p)
      S1 == [S EXCEPT !.registry[p][peer].data = d]
  IN IF ~isCreator(p) THEN S1
     ELSE sendEach(send(S1, d, p, PeerListMsg(allPeers(p, effectParticipants))),
                   p, registryKeys(S1, p), NewPeerMsg(peer))

\* mutant: the creator greets the newcomer and announces it to nobody
onDataOpenNoAnnounce(S, d, p) ==
  LET peer == otherEnd(S.data[d], p)
      S1 == [S EXCEPT !.registry[p][peer].data = d]
  IN IF ~isCreator(p) THEN S1
     ELSE send(S1, d, p, PeerListMsg(allPeers(p, effectParticipants)))

\* dataConn.on("open") installed by handleDataConnection, at p's end of link d
onDataOpen(S, d, p) ==
  LET peer == otherEnd(S.data[d], p)
      S1 == [S EXCEPT !.registry[p][peer].data = d]
  IN IF ~isCreator(p) THEN S1
     ELSE sendEach(send(S1, d, p, PeerListMsg(allPeers(p, effectParticipants))),
                   p, registryKeys(S1, p) \ {peer}, NewPeerMsg(peer))

\* mutant: a new-peer is dialled whoever it names, the receiver included
onDataDialsAnyone(S, d, p, msg, cap) ==
  LET S1 == IF msg.type = "peer-list" /\ isArray(msg.peers)
              THEN handlePeerList(S, p, msg.peers, cap) ELSE S
      S2 == IF msg.type = "new-peer" /\ msg.peerId # ""
                 /\ (cap = "mesh" \/ isCreator(p))
                 /\ S1.registry[p][msg.peerId].media = 0
              THEN [S1 EXCEPT !.media = Append(@, newCall(p, msg.peerId, "establishPeerConnection")),
                              !.registry[p][msg.peerId].media = Len(S1.media) + 1]
              ELSE S1
      S3 == IF msg.type = "request-peer-list" /\ isCreator(p)
              THEN send(S2, d, p, PeerListMsg(allPeers(p, effectParticipants))) ELSE S2
  IN IF msg.type = "peer-disconnect" /\ msg.peerId # ""
       THEN handlePeerDisconnection(S3, p, msg.peerId) ELSE S3

\* mutant: in star nobody dials an announced peer, the creator included
onDataStarIdle(S, d, p, msg, cap) ==
  LET S1 == IF msg.type = "peer-list" /\ isArray(msg.peers)
              THEN handlePeerList(S, p, msg.peers, cap) ELSE S
      S2 == IF msg.type = "new-peer" /\ msg.peerId # "" /\ msg.peerId # p
                 /\ cap = "mesh"
              THEN establishPeerConnection(S1, p, msg.peerId, cap) ELSE S1
      S3 == IF msg.type = "request-peer-list" /\ isCreator(p)
              THEN send(S2, d, p, PeerListMsg(allPeers(p, effectParticipants))) ELSE S2
  IN IF msg.type = "peer-disconnect" /\ msg.peerId # ""
       THEN handlePeerDisconnection(S3, p, msg.peerId) ELSE S3

\* mutant: the creator answers whatever is not one of the other three types
onDataAnswerAny(S, d, p, msg, cap) ==
  LET S1 == IF msg.type = "peer-list" /\ isArray(msg.peers)
              THEN handlePeerList(S, p, msg.peers, cap) ELSE S
      S2 == IF msg.type = "new-peer" /\ msg.peerId # "" /\ msg.peerId # p
                 /\ (cap = "mesh" \/ isCreator(p))
              THEN establishPeerConnection(S1, p, msg.peerId, cap) ELSE S1
      S3 == IF msg.type \notin {"peer-list", "new-peer", "peer-disconnect"} /\ isCreator(p)
              THEN send(S2, d, p, PeerListMsg(allPeers(p, effectParticipants))) ELSE S2
  IN IF msg.type = "peer-disconnect" /\ msg.peerId # ""
       THEN handlePeerDisconnection(S3, p, msg.peerId) ELSE S3

\* mutant: the creator answers a request on every open data link
onDataReplyAll(S, d, p, msg, cap) ==
  LET S1 == IF msg.type = "peer-list" /\ isArray(msg.peers)
              THEN handlePeerList(S, p, msg.peers, cap) ELSE S
      S2 == IF msg.type = "new-peer" /\ msg.peerId # "" /\ msg.peerId # p
                 /\ (cap = "mesh" \/ isCreator(p))
              THEN establishPeerConnection(S1, p, msg.peerId, cap) ELSE S1
      S3 == IF msg.type = "request-peer-list" /\ isCreator(p)
              THEN sendEach(S2, p, registryKeys(S2, p),
                            PeerListMsg(allPeers(p, effectParticipants))) ELSE S2
  IN IF msg.type = "peer-disconnect" /\ msg.peerId # ""
       THEN handlePeerDisconnection(S3, p, msg.peerId) ELSE S3

\* dataConn.on("data") installed by handleDataConnection of a render whose
\* networkTopology is cap, at p's end of link d
onData(S, d, p, msg, cap) ==
  LET S1 == IF msg.type = "peer-list" /\ isArray(msg.peers)
              THEN handlePeerList(S, p, msg.peers, cap) ELSE S
      S2 == IF msg.type = "new-peer" /\ msg.peerId # "" /\ msg.peerId # p
                 /\ (cap = "mesh" \/ isCreator(p))
              THEN establishPeerConnection(S1, p, msg.peerId, cap) ELSE S1
      S3 == IF msg.type = "request-peer-list" /\ isCreator(p)
              THEN send(S2, d, p, PeerListMsg(allPeers(p, effectParticipants))) ELSE S2
  IN IF msg.type = "peer-disconnect" /\ msg.peerId # ""
       THEN handlePeerDisconnection(S3, p, msg.peerId) ELSE S3

\* call.on("stream") of peer.on("call"), at callee p for caller peerId
onInboundStream(S, p, peerId) ==
  IF inRoster(S.roster[p], peerId) THEN S
  ELSE LET S1 == IF effTopo[p] = "mesh" /\ ~isCreator(p) /\ ~isCreatorPeer(peerId)
                      /\ pstate[p] # "init"
                   THEN establishPeerConnection(S, p, peerId, effTopo[p]) ELSE S
       IN addParticipant(S1, p, peerId, isCreatorPeer(peerId))

\* call.on("stream") of establishPeerConnection and of connectToCreator
onOutboundStream(S, p, peerId) == addParticipant(S, p, peerId, isCreatorPeer(peerId))

\* mutant: the data link of a dropped peer is left open
RECURSIVE starDropMediaOnly(_, _, _, _)
starDropMediaOnly(S, p, ids, emit) ==
  IF ids = {} THEN S
  ELSE LET id == CHOOSE x \in ids : TRUE
           e == S.registry[p][id]
           S1 == closeMedia(S, e.media, p)
           S2 == IF emit /\ e.media # 0 THEN handlePeerDisconnection(S1, p, id) ELSE S1
           S4 == [S2 EXCEPT !.registry[p][id] = NoEntry,
                            !.roster[p] = filterRoster(@, {id})]
       IN starDropMediaOnly(S4, p, ids \ {id}, emit)

\* setTopology("star"), non-creator: close and forget every peer whose id lacks
\* the creator marker.  emit: whether mediaConnection.close() fires the call's
\* own "close" handler before it returns (the transport does when the call
\* was open).
RECURSIVE starDrop(_, _, _, _)
starDrop(S, p, ids, emit) ==
  IF ids = {} THEN S
  ELSE LET id == CHOOSE x \in ids : TRUE
           e == S.registry[p][id]
           S1 == closeMedia(S, e.media, p)
           S2 == IF emit /\ e.media # 0 THEN handlePeerDisconnection(S1, p, id) ELSE S1
           S3 == closeData(S2, e.data, p)
           S4 == [S3 EXCEPT !.registry[p][id] = NoEntry,
                            !.roster[p] = filterRoster(@, {id})]
       IN starDrop(S4, p, ids \ {id}, emit)

\* setTopology, apart from setNetworkTopology
setTopology(S, p, t, emit) ==
  IF t = "star" /\ ~isCreator(p)
    THEN starDrop(S, p, {q \in registryKeys(S, p) : ~isCreatorPeer(q)}, emit)
  ELSE IF t = "mesh" /\ ~isCreator(p) /\ pstate[p] # "init"
    THEN LET d == S.registry[p][CreatorId].data
         IN IF isOpen(S, d, p) THEN send(S, d, p, RequestPeerListMsg) ELSE S
  ELSE S

\* mutant: a joiner whose creator link is not open does nothing
reconnectAllRequestOnly(S, p) ==
  IF isCreator(p) THEN broadcastPeerList(S, p, S.roster[p])
  ELSE IF ~isOpen(S, S.registry[p][CreatorId].data, p)
    THEN S
    ELSE send(S, S.registry[p][CreatorId].data, p, RequestPeerListMsg)

\* reconnectAll
reconnectAll(S, p) ==
  IF isCreator(p) THEN broadcastPeerList(S, p, S.roster[p])
  ELSE IF ~isOpen(S, S.registry[p][CreatorId].data, p)
    THEN connectToCreator(S, p, topology[p])
    ELSE send(S, S.registry[p][CreatorId].data, p, RequestPeerListMsg)

\* the cleanup of the mount effect: notify, close what is registered, destroy
\* the peer handle (which closes every link of the peer)
RECURSIVE closeRegistered(_, _, _)
closeRegistered(S, p, ids) ==
  IF ids = {} THEN S
  ELSE LET id == CHOOSE x \in ids : TRUE
           e == S.registry[p][id]
       IN closeRegistered(closeData(closeMedia(S, e.media, p), e.data, p), p, ids \ {id})

destroyPeer(S, p) ==
  [S EXCEPT !.media = [m \in 1..Len(@) |-> IF p \in {@[m].from, @[m].to} THEN closedMedia(@[m], p) ELSE @[m]],
            !.data = [d \in 1..Len(@) |-> IF p \in {@[d].from, @[d].to} THEN closedData(@[d], p) ELSE @[d]]]

\* mutant: the peer handle is left alone, only what is registered is closed
cleanupRegisteredOnly(S, p) ==
  closeRegistered(sendEach(S, p, registryKeys(S, p), PeerDisconnectMsg(p)),
                  p, registryKeys(S, p))

\* mutant: the links are closed before the peers are notified
cleanupCloseFirst(S, p) ==
  destroyPeer(sendEach(closeRegistered(S, p, registryKeys(S, p)),
                       p, registryKeys(S, p), PeerDisconnectMsg(p)), p)

cleanup(S, p) ==
  destroyPeer(closeRegistered(sendEach(S, p, registryKeys(S, p), PeerDisconnectMsg(p)),
                              p, registryKeys(S, p)), p)

\* handleBeforeUnload: the same three steps when the tab closes
handleBeforeUnload(S, p) ==
  destroyPeer(closeRegistered(sendEach(S, p, registryKeys(S, p), PeerDisconnectMsg(p)),
                              p, registryKeys(S, p)), p)

\* ------------------------------------------------------------- actions
Init ==
  /\ pstate = [p \in Peers |-> "init"]
  /\ topology = [p \in Peers |-> "mesh"]
  /\ effTopo = [p \in Peers |-> "mesh"]
  /\ roster = [p \in Peers |-> <<>>]
  /\ registry = [p \in Peers |-> [q \in Peers |-> NoEntry]]
  /\ media = <<>>
  /\ data = <<>>
  /\ ops = 0
  /\ awaiting = [p \in Peers |-> 0]
  /\ error = [p \in Peers |-> NoError]
  /\ now = 0
  /\ sessions = <<>>

\* peer-list messages in flight to p on its registered creator link
listsInFlight(p) ==
  LET d == registry[p][CreatorId].data
      q == IF d = 0 THEN <<>> ELSE IF data[d].from = p THEN data[d].qtf ELSE data[d].qft
  IN Cardinality({i \in 1..Len(q) : q[i].type = "peer-list"})

\* The mount effect runs and the peer handle opens: the effect's closures
\* capture the networkTopology of that render; a joiner dials the creator
\* (a room is joined once its creator is there).  The two joiners run the
\* same code, so the one named r-1 is taken to be the one that opens first.
PeerOpen(p) ==
  /\ pstate[p] = "init"
  /\ isCreator(p) \/ pstate[CreatorId] = "open"
  /\ p = "r-2" => pstate["r-1"] # "init"
  /\ pstate' = [pstate EXCEPT ![p] = "open"]
  /\ effTopo' = [effTopo EXCEPT ![p] = topology[p]]
  /\ Commit(IF isCreator(p) THEN St ELSE connectToCreator(St, p, topology[p]))
  /\ UNCHANGED <<now, sessions, error, topology, ops, awaiting>>

\* peer.on("call"): answer, install the handlers, register the call
DeliverCall(m) ==
  /\ m \in 1..Len(media)
  /\ media[m].ts = "ringing"
  /\ pstate[media[m].to] = "open"
  /\ Commit([St EXCEPT !.media[m].ts = "live",
                       !.registry[media[m].to][media[m].from].media = m])
  /\ UNCHANGED <<now, sessions, error, pstate, topology, effTopo, ops, awaiting>>

\* a "stream" event of call m at p (the transport fires one per track)
StreamEvent(m, p) ==
  /\ m \in 1..Len(media)
  /\ p \in {media[m].from, media[m].to}
  /\ media[m].fs = "live" /\ media[m].ts = "live"
  /\ Commit(IF p = media[m].to THEN onInboundStream(St, p, media[m].from)
                                ELSE onOutboundStream(St, p, media[m].to))
  /\ UNCHANGED <<now, sessions, error, pstate, topology, effTopo, ops, awaiting>>

\* call.on("close") at p
MediaCloseEvent(m, p) ==
  /\ m \in 1..Len(media)
  /\ p \in {media[m].from, media[m].to}
  /\ endStatus(media[m], p) = "closing"
  /\ Commit(handlePeerDisconnection(
              [St EXCEPT !.media[m] = IF @.from = p THEN [@ EXCEPT !.fs = "dead"]
                                                    ELSE [@ EXCEPT !.ts = "dead"]],
              p, otherEnd(media[m], p)))
  /\ UNCHANGED <<now, sessions, error, pstate, topology, effTopo, ops, awaiting>>

\* dataConn.on("open") at p: the dialling end, or the dialled end (whose
\* peer.on("connection") installs the handlers of the mount effect)
DataOpen(d, p) ==
  /\ d \in 1..Len(data)
  /\ \/ p = data[d].from /\ data[d].fs = "connecting" /\ data[d].ts \in {"pending", "open"}
        /\ Commit(onDataOpen([St EXCEPT !.data[d].fs = "open"], d, p))
     \/ p = data[d].to /\ data[d].ts = "pending" /\ data[d].fs \in {"connecting", "open"}
        /\ pstate[p] = "open"
        /\ Commit(onDataOpen([St EXCEPT !.data[d].ts = "open"], d, p))
  /\ UNCHANGED <<now, sessions, error, pstate, topology, effTopo, ops, awaiting>>

\* dataConn.on("data") at p: the oldest message in flight to p is handled
DataEvent(d, p) ==
  /\ d \in 1..Len(data)
  /\ p \in {data[d].from, data[d].to}
  /\ endStatus(data[d], p) \in {"open", "closing"}
  /\ LET fromEnd == p = data[d].from
         q == IF fromEnd THEN data[d].qtf ELSE data[d].qft
         cap == IF fromEnd THEN data[d].cap ELSE effTopo[p]
     IN /\ q # <<>>
        /\ Commit(onData(IF fromEnd THEN [St EXCEPT !.data[d].qtf = Tail(@)]
                                     ELSE [St EXCEPT !.data[d].qft = Tail(@)],
                         d, p, Head(q), cap))
        /\ awaiting' = IF Head(q).type = "peer-list" /\ awaiting[p] > 0
                          /\ d = registry[p][CreatorId].data
                         THEN [awaiting EXCEPT ![p] = @ - 1] ELSE awaiting
  /\ UNCHANGED <<now, sessions, error, pstate, topology, effTopo, ops>>

\* dataConn.on("close") at p, after everything sent before the close
DataCloseEvent(d, p) ==
  /\ d \in 1..Len(data)
  /\ p \in {data[d].from, data[d].to}
  /\ endStatus(data[d], p) = "closing"
  /\ (IF p = data[d].from THEN data[d].qtf ELSE data[d].qft) = <<>>
  /\ Commit([St EXCEPT !.data[d] = IF @.from = p THEN [@ EXCEPT !.fs = "dead"]
                                                 ELSE [@ EXCEPT !.ts = "dead"]])
  /\ UNCHANGED <<now, sessions, error, pstate, topology, effTopo, ops, awaiting>>

\* the UI calls setTopology(t)
SwitchTopology(p, t) ==
  /\ pstate[p] # "down"
  /\ ops' = ops + 1
  /\ topology' = [topology EXCEPT ![p] = t]
  /\ \E emit \in BOOLEAN : Commit(setTopology(St, p, t, emit))
  /\ LET d == registry[p][CreatorId].data
         linkOpen == d # 0 /\ data[d].fs = "open" /\ data[d].ts = "open"
     IN awaiting' = [awaiting EXCEPT ![p] =
          IF isCreator(p) \/ ~linkOpen THEN 0
          ELSE IF t = "star" THEN (IF topology[p] = "mesh" \/ @ = -1 THEN -1 ELSE 0)
          ELSE IF @ = -1 THEN 1 + listsInFlight(p)
          ELSE @]
  /\ UNCHANGED <<now, sessions, error, pstate, effTopo>>

\* the UI calls reconnectAll()
ReconnectAll(p) ==
  /\ pstate[p] = "open"
  /\ ops' = ops + 1
  /\ Commit(reconnectAll(St, p))
  /\ awaiting' = IF isCreator(p) \/ isOpen(St, registry[p][CreatorId].data, p)
                   THEN awaiting ELSE [awaiting EXCEPT ![p] = 0]
  /\ UNCHANGED <<now, sessions, error, pstate, topology, effTopo>>

\* setInterval in the creator's peer.on("open"): the function that would clear
\* it is returned to the event emitter, which drops it, so that the interval
\* runs from the open of the peer handle on
broadcastInterval == pstate[CreatorId] # "init"

\* the creator's 10 s interval fires: broadcastPeerList of the mount effect
TimerTick ==
  /\ broadcastInterval
  /\ ops' = ops + 1
  /\ Commit(broadcastPeerList(St, CreatorId, effectParticipants))
  /\ UNCHANGED <<now, sessions, error, pstate, topology, effTopo, awaiting>>

\* a media call breaks: each end that is up has a close event to handle
MediaFail(m) ==
  /\ m \in 1..Len(media)
  /\ media[m].fs = "live" \/ media[m].ts = "live"
  /\ ops' = ops + 1
  /\ Commit([St EXCEPT !.media[m] =
       [@ EXCEPT !.fs = IF @ = "live" THEN "closing" ELSE @,
                 !.ts = IF @ = "ringing" THEN "dead" ELSE IF @ = "live" THEN "closing" ELSE @]])
  /\ UNCHANGED <<now, sessions, error, pstate, topology, effTopo, awaiting>>

\* a data link breaks: what is in flight is lost
DataFail(d) ==
  /\ d \in 1..Len(data)
  /\ data[d].fs \in {"connecting", "open"} \/ data[d].ts = "open"
  /\ ops' = ops + 1
  /\ Commit([St EXCEPT !.data[d] =
       [@ EXCEPT !.fs = IF @ = "connecting" THEN "dead" ELSE IF @ = "open" THEN "closing" ELSE @,
                 !.ts = IF @ = "pending" THEN "dead" ELSE IF @ = "open" THEN "closing" ELSE @,
                 !.qft = <<>>, !.qtf = <<>>]])
  /\ UNCHANGED <<now, sessions, error, pstate, topology, effTopo, awaiting>>

\* the session unmounts (the cleanup of the mount effect) or its tab closes
\* (handleBeforeUnload)
Leave(p) ==
  /\ pstate[p] = "open"
  /\ ops' = ops + 1
  /\ pstate' = [pstate EXCEPT ![p] = "down"]
  /\ \/ Commit(cleanup(St, p))
     \/ Commit(handleBeforeUnload(St, p))
  /\ awaiting' = [awaiting EXCEPT ![p] = 0]
  /\ UNCHANGED <<now, sessions, error, topology, effTopo>>

\* peer.on("error"): the peer handle reports a failure
PeerError(p) ==
  /\ pstate[p] # "down"
  /\ ops' = ops + 1
  /\ error' = [error EXCEPT ![p] = "Connection error"]
  /\ UNCHANGED <<now, sessions, pstate, topology, effTopo, roster, registry, media, data, awaiting>>

\* call.on("error") at p: the handler of connectToCreator reports to the
\* user, those of establishPeerConnection and of peer.on("call") only log
CallError(m, p) ==
  /\ m \in 1..Len(media)
  /\ p \in {media[m].from, media[m].to}
  /\ endStatus(media[m], p) = "live"
  /\ ops' = ops + 1
  /\ error' = IF p = media[m].from /\ media[m].via = "connectToCreator"
                THEN [error EXCEPT ![p] = "Failed to connect to room host. Please try again."]
                ELSE error
  /\ UNCHANGED <<now, sessions, pstate, topology, effTopo, roster, registry, media, data, awaiting>>

\* dataConn.on("error") at p: only logs
DataError(d, p) ==
  /\ d \in 1..Len(data)
  /\ p \in {data[d].from, data[d].to}
  /\ endStatus(data[d], p) \in {"connecting", "open"}
  /\ ops' = ops + 1
  /\ UNCHANGED <<now, sessions, error, pstate, topology, effTopo, roster, registry, media, data, awaiting>>

\* the messages the protocol has no use for, as p receives them
Anomalies(p) ==
  {ChatMsg, PeerListMsg(NotAnArray), NewPeerMsg(""), PeerDisconnectMsg(""), NewPeerMsg(p)}

\* the other end of data link d sends p something the protocol has no use
\* for (dataConn.on("data") takes `data: any`)
ReceiveAnomaly(d, p, msg) ==
  /\ d \in 1..Len(data)
  /\ p \in {data[d].from, data[d].to}
  /\ data[d].fs = "open" /\ data[d].ts = "open"
  /\ msg \in Anomalies(p)
  /\ ops' = ops + 1
  /\ Commit(IF p = data[d].from THEN [St EXCEPT !.data[d].qtf = Append(@, msg)]
                                ELSE [St EXCEPT !.data[d].qft = Append(@, msg)])
  /\ UNCHANGED <<now, sessions, error, pstate, topology, effTopo, awaiting>>

\* the names of the object the hook returns to the room page
returned ==
  {"localStream", "participants", "toggleAudio", "toggleVideo", "error", "isConnected",
   "setTopology", "networkTopology", "reconnectAll"}

\* sendChatMessage of the room page calls the `sendDataToAll` it destructured
\* from the hook's return value.  The hook returns no such name: the value is
\* undefined, the call throws, and nothing is sent or stored.
sendChatMessage(S, p) == S

\* the user submits a chat message
SendChatMessage(p) ==
  /\ pstate[p] = "open"
  /\ ops' = ops + 1
  /\ Commit(sendChatMessage(St, p))
  /\ UNCHANGED <<now, sessions, error, pstate, topology, effTopo, awaiting>>

\* time passes
ClockTick ==
  /\ \E dt \in {1, 10} : now + dt <= MaxNow /\ now' = now + dt
  /\ UNCHANGED <<sessions, pstate, topology, effTopo, roster, registry, media, data, ops,
                 awaiting, error>>

\* a browser opens the room page: the mount effect computes the peer id
StartSession(roomId, creator) ==
  /\ Len(sessions) < MaxSessions
  /\ sessions' = Append(sessions, [roomId |-> roomId, isCreator |-> creator,
                                   id |-> sessionPeerId(roomId, creator, now)])
  /\ UNCHANGED <<now, pstate, topology, effTopo, roster, registry, media, data, ops,
                 awaiting, error>>

\* what the transport delivers: opens, calls, streams, messages, closes
Deliver ==
  \/ \E p \in Peers : PeerOpen(p)
  \/ \E m \in 1..MaxMedia : DeliverCall(m)
  \/ \E m \in 1..MaxMedia, p \in Peers : StreamEvent(m, p)
  \/ \E d \in 1..MaxData, p \in Peers : DataOpen(d, p)
  \/ \E d \in 1..MaxData, p \in Peers : DataEvent(d, p)

Closes ==
  \/ \E m \in 1..MaxMedia, p \in Peers : MediaCloseEvent(m, p)
  \/ \E d \in 1..MaxData, p \in Peers : DataCloseEvent(d, p)

\* The room with topology switches by any session.
Next ==
  \/ Deliver
  \/ Closes
  \/ ops < MaxOps /\ \E p \in Peers, t \in Topologies : SwitchTopology(p, t)

Spec == Init /\ [][Next]_vars

\* The join scenario: nothing fails, nobody leaves or switches, and every
\* event the transport delivers is handled.
NextJoin == Deliver

SpecJoin == Init /\ [][NextJoin]_vars /\ WF_vars(NextJoin)

\* Churn: links break, sessions leave.
NextChurn ==
  \/ Deliver
  \/ Closes
  \/ ops < MaxOps /\ \E m \in 1..MaxMedia : MediaFail(m)
  \/ ops < MaxOps /\ \E d \in 1..MaxData : DataFail(d)
  \/ ops < MaxOps /\ \E p \in Peers : Leave(p)

SpecChurn == Init /\ [][NextChurn]_vars

\* The topology round trip: joiners switch topology, nothing fails.
NextRoundTrip ==
  \/ Deliver
  \/ Closes
  \/ ops < MaxSwitch /\ \E p \in Joiners, t \in Topologies : SwitchTopology(p, t)

SpecRoundTrip == Init /\ [][NextRoundTrip]_vars

\* The creator's announcements: timer ticks, and reconnectAll by the creator
\* or by a joiner whose creator link is open.
NextAnnounce ==
  \/ Deliver
  \/ ops < MaxOps /\ TimerTick
  \/ ops < MaxOps /\ \E p \in Peers :
       /\ isCreator(p) \/ isOpen(St, registry[p][CreatorId].data, p)
       /\ ReconnectAll(p)

SpecAnnounce == Init /\ [][NextAnnounce]_vars

\* a joiner has dialled the creator more than once
redialled ==
  \E d, e \in 1..Len(data) : d # e /\ data[d].from = data[e].from /\ data[d].to = data[e].to

\* reconnectAll by any session.  A joiner whose creator link is not open
\* redials while it is alone with the creator, and the second joiner stays
\* out of a room in which a redial has happened.
NextReconnect ==
  \/ \E p \in Peers : (p = "r-2" => ~redialled) /\ PeerOpen(p)
  \/ \E m \in 1..MaxMedia : DeliverCall(m)
  \/ \E m \in 1..MaxMedia, p \in Peers : StreamEvent(m, p)
  \/ \E d \in 1..MaxData, p \in Peers : DataOpen(d, p)
  \/ \E d \in 1..MaxData, p \in Peers : DataEvent(d, p)
  \/ ops < MaxOps /\ \E p \in Peers :
       /\ isCreator(p) \/ isOpen(St, registry[p][CreatorId].data, p) \/ pstate["r-2"] = "init"
       /\ ReconnectAll(p)

SpecReconnect == Init /\ [][NextReconnect]_vars

\* Teardown: sessions leave, and the creator's interval fires after the
\* creator has left.
NextTeardown ==
  \/ Deliver
  \/ Closes
  \/ ops < MaxOps /\ \E p \in Peers : Leave(p)
  \/ ops < MaxTeardown /\ pstate[CreatorId] = "down" /\ TimerTick

SpecTeardown == Init /\ [][NextTeardown]_vars

\* Error events of the peer handle, of a call and of a data link.
NextErrors ==
  \/ Deliver
  \/ ops < MaxOps /\ \E p \in Peers : PeerError(p)
  \/ ops < MaxOps /\ \E m \in 1..MaxMedia, p \in Peers : CallError(m, p)
  \/ ops < MaxOps /\ \E d \in 1..MaxData, p \in Peers : DataError(d, p)

SpecErrors == Init /\ [][NextErrors]_vars

\* Messages the protocol has no use for arrive on open data links, each at an
\* end that has nothing else waiting on that link.
NextAnomaly ==
  \/ Deliver
  \/ ops < MaxOps /\ \E d \in 1..MaxData, p \in Peers :
       /\ d <= Len(data)
       /\ (IF p = data[d].from THEN data[d].qtf ELSE data[d].qft) = <<>>
       /\ \E msg \in Anomalies(p) : ReceiveAnomaly(d, p, msg)

SpecAnomaly == Init /\ [][NextAnomaly]_vars

\* Peer ids: sessions of any room and role start as time passes.
NextIds ==
  \/ ClockTick
  \/ \E roomId \in RoomIds, creator \in BOOLEAN : StartSession(roomId, creator)

SpecIds == Init /\ [][NextIds]_vars

\* Redial: one joiner and the creator; the joiner calls reconnectAll, and links
\* break.
NextSupersede ==
  \/ \E p \in Peers \ {"r-2"} : PeerOpen(p)
  \/ \E m \in 1..MaxMedia : DeliverCall(m)
  \/ \E m \in 1..MaxMedia, p \in Peers : StreamEvent(m, p)
  \/ \E d \in 1..MaxData, p \in Peers : DataOpen(d, p)
  \/ \E d \in 1..MaxData, p \in Peers : DataEvent(d, p)
  \/ Closes
  \/ ops < MaxSupersede /\ \E p \in Joiners : ReconnectAll(p)
  \/ ops < MaxSupersede /\ \E m \in 1..MaxMedia : MediaFail(m)
  \/ ops < MaxSupersede /\ \E d \in 1..MaxData : DataFail(d)

SpecSupersede == Init /\ [][NextSupersede]_vars

\* Redial, then departure: one joiner and the creator; the joiner calls
\* reconnectAll, and sessions leave.
NextOrphan ==
  \/ \E p \in Peers \ {"r-2"} : PeerOpen(p)
  \/ \E m \in 1..MaxMedia : DeliverCall(m)
  \/ \E m \in 1..MaxMedia, p \in Peers : StreamEvent(m, p)
  \/ \E d \in 1..MaxData, p \in Peers : DataOpen(d, p)
  \/ \E d \in 1..MaxData, p \in Peers : DataEvent(d, p)
  \/ Closes
  \/ ops < MaxSupersede /\ \E p \in Joiners : ReconnectAll(p)
  \/ ops < MaxSupersede /\ \E p \in Peers : Leave(p)

SpecOrphan == Init /\ [][NextOrphan]_vars

\* Chat: a session submits a chat message.
NextChat ==
  \/ Deliver
  \/ ops < MaxOps /\ \E p \in Peers : SendChatMessage(p)

SpecChat == Init /\ [][NextChat]_vars

\* ------------------------------------------------------------- claims
rosterSet(p) == {roster[p][i].id : i \in 1..Len(roster[p])}

absent(p, peerId) == ~inRoster(roster[p], peerId) /\ registry[p][peerId] = NoEntry

\* the oldest message in flight to p on data link d
inbox(d, p) == IF p = data[d].from THEN data[d].qtf ELSE data[d].qft

\* C1: every roster holds at most one entry per peer id, and a stream event
\* for an id already in the roster leaves the roster as it was (no step that
\* changes a roster is such a stream event).
C1_RosterDedup ==
  /\ [](\A p \in Peers : \A i, j \in 1..Len(roster[p]) :
          roster[p][i].id = roster[p][j].id => i = j)
  /\ [][\A p \in Peers :
          roster'[p] # roster[p]
            => \A m \in 1..Len(media) :
                 ~(inRoster(roster[p], otherEnd(media[m], p)) /\ StreamEvent(m, p))]_vars

\* a peer with two participants and a live call to one of them: that call's
\* stream events keep coming
C1_Witness ==
  \E p \in Peers, m \in 1..Len(media) :
    /\ Len(roster[p]) = 2
    /\ p \in {media[m].from, media[m].to}
    /\ media[m].fs = "live" /\ media[m].ts = "live"
    /\ inRoster(roster[p], otherEnd(media[m], p))

Converged ==
  /\ rosterSet(CreatorId) = Joiners
  /\ \A j \in Joiners : rosterSet(j) = Peers \ {j}

\* C2: in the mesh join scenario the rosters converge, and stay, at everybody
\* else: the creator's is the two joiners, each joiner's is the creator and
\* the other joiner.
C2_MeshJoinConverges == <>[]Converged

C2_Witness == Converged /\ \A p \in Peers : Len(roster[p]) = 2

\* C3: once a peer has handled the close of its media link to P, the close of
\* its data link to P, or a peer-disconnect naming P, P is in neither its
\* roster nor its registry.
C3_DisconnectPropagation ==
  [][/\ \A m \in 1..Len(media), p \in Peers :
          MediaCloseEvent(m, p) => absent(p, otherEnd(media[m], p))'
     /\ \A d \in 1..Len(data), p \in Peers :
          DataCloseEvent(d, p) => absent(p, otherEnd(data[d], p))'
     /\ \A d \in 1..Len(data), p \in Peers :
          (DataEvent(d, p) /\ Head(inbox(d, p)).type = "peer-disconnect")
            => absent(p, Head(inbox(d, p)).peerId)']_vars

\* what p has sent on data link d and the other end has not handled yet
outbox(d, p) == IF p = data[d].from THEN data[d].qft ELSE data[d].qtf

\* C4: when a non-creator that holds a registered creator link switches to
\* star, its registry is left with the creator's id alone, and both links of
\* every peer it removed are closed.
C4_StarSwitchRegistry ==
  [][\A p \in Joiners :
       (SwitchTopology(p, "star") /\ registry[p][CreatorId] # NoEntry)
         => /\ {q \in Peers : registry'[p][q] # NoEntry} = {CreatorId}
            /\ \A q \in Peers \ {CreatorId} :
                 /\ registry[p][q].media # 0
                      => endStatus(media'[registry[p][q].media], p) = "dead"
                 /\ registry[p][q].data # 0
                      => endStatus(data'[registry[p][q].data], p) = "dead"]_vars

\* a joiner in star whose registry is the creator alone and that has closed
\* a call and a data link to the other joiner
C4_Witness ==
  \E p \in Joiners :
    /\ pstate[p] = "open" /\ topology[p] = "star"
    /\ {q \in Peers : registry[p][q] # NoEntry} = {CreatorId}
    /\ \E m \in 1..Len(media) :
         /\ p \in {media[m].from, media[m].to}
         /\ otherEnd(media[m], p) \in Joiners
         /\ endStatus(media[m], p) = "dead"
         /\ endStatus(media[m], otherEnd(media[m], p)) = "closing"
    /\ \E d \in 1..Len(data) :
         /\ p \in {data[d].from, data[d].to}
         /\ otherEnd(data[d], p) \in Joiners
         /\ endStatus(data[d], p) = "dead"
         /\ endStatus(data[d], otherEnd(data[d], p)) = "closing"

\* C5: after a non-creator's switch to star its roster holds no participant
\* without the creator marker, and still holds the creator if it did before.
C5_StarSwitchRoster ==
  [][\A p \in Joiners :
       SwitchTopology(p, "star")
         => /\ \A i \in 1..Len(roster'[p]) : isCreatorPeer(roster'[p][i].id)
            /\ inRoster(roster[p], CreatorId) => inRoster(roster'[p], CreatorId)]_vars

\* C6: handling new-peer opens a link only when the named peer is not the
\* receiver and the receiver's current topology is mesh or it is the creator;
\* a non-creator in star opens none.
C6_NewPeerGate ==
  [][\A d \in 1..Len(data), p \in Peers :
       (DataEvent(d, p) /\ Head(inbox(d, p)).type = "new-peer"
          /\ (Len(media') > Len(media) \/ Len(data') > Len(data)))
         => /\ Head(inbox(d, p)).peerId # p
            /\ topology[p] = "mesh" \/ isCreator(p)]_vars

\* C7: while a non-creator's topology is star its registry holds no id
\* without the creator marker.
C7_StarShape ==
  \A p \in Joiners :
    topology[p] = "star" => \A q \in Peers : registry[p][q] # NoEntry => isCreatorPeer(q)

\* C8: a joiner that went mesh -> star -> mesh with its creator link open
\* holds, once it has handled the creator's next peer-list, a registered
\* media link to every other joiner in the creator's roster.
C8_MeshRestored ==
  [][\A p \in Joiners :
       (awaiting[p] = 1 /\ awaiting'[p] = 0 /\ topology[p] = "mesh" /\ topology'[p] = "mesh"
          /\ pstate'[p] = "open")
         => \A q \in Joiners \ {p} :
              inRoster(roster'[CreatorId], q) => registry'[p][q].media # 0]_vars

\* C9: a non-creator's switch to mesh sends one request-peer-list on its
\* creator link when that link is open, and re-dials the creator (a new data
\* link and a new call) when the link is absent or not open.
C9_MeshSwitchRequestsOrRedials ==
  [][\A p \in Joiners :
       (SwitchTopology(p, "mesh") /\ pstate[p] = "open")
         => LET d == registry[p][CreatorId].data IN
            /\ (d # 0 /\ endStatus(data[d], p) = "open")
                 => /\ outbox(d, p)' = Append(outbox(d, p), RequestPeerListMsg)
                    /\ Len(data') = Len(data) /\ Len(media') = Len(media)
            /\ (d = 0 \/ endStatus(data[d], p) \in {"connecting", "dead"})
                 => /\ Len(data') = Len(data) + 1 /\ Len(media') = Len(media) + 1
                    /\ data'[Len(data')].from = p /\ data'[Len(data')].to = CreatorId
                    /\ media'[Len(media')].from = p /\ media'[Len(media')].to = CreatorId]_vars

\* C10: every peer-list the creator sends carries its own id and the ids of
\* the participants in its roster at that moment, no more and no fewer.
C10_PeerListIsRoster ==
  [][\A d \in 1..Len(data') :
       (CreatorId \in {data'[d].from, data'[d].to})
         => LET old == IF d <= Len(data) THEN outbox(d, CreatorId) ELSE <<>>
                new == outbox(d, CreatorId)'
            IN \A i \in 1..Len(new) :
                 (i > Len(old) /\ new[i].type = "peer-list")
                   => {new[i].peers[k] : k \in 1..Len(new[i].peers)}
                        = {CreatorId} \cup rosterSet(CreatorId)]_vars

\* a message p sends on data link d now reaches the other end's queue
deliverable(d, p) ==
  /\ endStatus(data[d], p) = "open"
  /\ endStatus(data[d], otherEnd(data[d], p)) \in {"pending", "connecting", "open"}

\* the types of the messages p has sent on d in this step, oldest first
sentTypes(d, p) ==
  LET old == IF d <= Len(data) THEN outbox(d, p) ELSE <<>>
      new == outbox(d, p)'
  IN [i \in 1..(Len(new) - Len(old)) |-> new[Len(old) + i].type]

\* C11: when a data link from N opens at the creator, the creator sends one
\* peer-list on that link and one new-peer naming N on the open data link of
\* every other registered peer, and no new-peer to N; a non-creator at which
\* a data link opens sends nothing.
C11_CreatorFanOut ==
  [][\A d \in 1..Len(data), p \in Peers :
       DataOpen(d, p)
         => LET N == otherEnd(data[d], p) IN
            IF isCreator(p)
              THEN /\ outbox(d, p)' = Append(outbox(d, p), PeerListMsg(outbox(d, p)'[Len(outbox(d, p)')].peers))
                   /\ \A q \in Peers \ {p, N} :
                        LET e == registry[p][q].data IN
                        e # 0 /\ e # d =>
                          outbox(e, p)' = IF deliverable(e, p)
                                            THEN Append(outbox(e, p), NewPeerMsg(N))
                                            ELSE outbox(e, p)
              ELSE \A e \in 1..Len(data) :
                     data'[e].qft = data[e].qft /\ data'[e].qtf = data[e].qtf]_vars

\* a new-peer naming r-2 is in flight from the creator to r-1 while r-2 has
\* been sent a peer-list and no new-peer
C11_Witness ==
  \E d, e \in 1..Len(data) :
    /\ {data[d].from, data[d].to} = {CreatorId, "r-1"}
    /\ {data[e].from, data[e].to} = {CreatorId, "r-2"}
    /\ \E i \in 1..Len(outbox(d, CreatorId)) : outbox(d, CreatorId)[i] = NewPeerMsg("r-2")
    /\ outbox(e, CreatorId) # <<>>
    /\ \A i \in 1..Len(outbox(e, CreatorId)) : outbox(e, CreatorId)[i].type = "peer-list"

\* C12: the creator answers each request-peer-list it handles with exactly
\* one peer-list, on the link the request came on and on no other; a
\* non-creator that handles a request-peer-list sends nothing and changes
\* nothing.
C12_RequestAnswered ==
  /\ [][\A d \in 1..Len(data) :
          (DataEvent(d, CreatorId) /\ Head(inbox(d, CreatorId)).type = "request-peer-list")
            => /\ sentTypes(d, CreatorId)
                    = IF deliverable(d, CreatorId) THEN <<"peer-list">> ELSE <<>>
               /\ \A e \in 1..Len(data') : e # d => e <= Len(data) /\ data'[e] = data[e]
               /\ Len(data') = Len(data)]_vars
  /\ [](\A p \in Joiners, d \in 1..Len(data), cap \in Topologies :
          (p \in {data[d].from, data[d].to} /\ isOpen(St, d, p))
            => onData(St, d, p, RequestPeerListMsg, cap) = St)

\* a joiner that asked for the list has the creator's greeting and the
\* creator's answer in flight to it, and the other joiner's link is open
C12_Witness ==
  \E d, e \in 1..Len(data), p \in Joiners :
    /\ {data[d].from, data[d].to} = {CreatorId, p}
    /\ Len(inbox(d, p)) = 2
    /\ \A i \in 1..2 : inbox(d, p)[i].type = "peer-list"
    /\ ops = 1 /\ topology[p] = "mesh"
    /\ e # d /\ CreatorId \in {data[e].from, data[e].to}
    /\ registry[CreatorId][otherEnd(data[e], CreatorId)].data = e
    /\ deliverable(e, CreatorId)

\* C13: once a peer with an open peer handle has handled a peer-list L, then
\* if its topology is mesh or it is the creator its registry holds a media
\* link for every id of L but its own, and if its topology is star and it is
\* not the creator it has opened no link and its registry holds creator-marked
\* ids only.
C13_PeerListConvergence ==
  [][\A d \in 1..Len(data), p \in Peers :
       (DataEvent(d, p) /\ Head(inbox(d, p)).type = "peer-list" /\ pstate[p] = "open")
         => LET L == Head(inbox(d, p)).peers IN
            IF topology[p] = "mesh" \/ isCreator(p)
              THEN \A i \in 1..Len(L) : L[i] # p => registry'[p][L[i]].media # 0
              ELSE /\ Len(media') = Len(media) /\ Len(data') = Len(data)
                   /\ \A q \in Peers : registry'[p][q] # NoEntry => isCreatorPeer(q)]_vars

\* C14: establishPeerConnection(q) changes nothing when q is the local id or
\* the registry already holds a media link for q, so that two calls in a row
\* make at most one data link and one call; the same on the one path that
\* calls it for a peer already registered, the stream of an inbound call.
C14_EstablishIdempotent ==
  /\ [](\A p, q \in Peers, cap \in Topologies :
          pstate[p] = "open" =>
            LET S1 == establishPeerConnection(St, p, q, cap)
                S2 == establishPeerConnection(S1, p, q, cap)
            IN /\ (q = p \/ registry[p][q].media # 0) => S1 = St
               /\ S2 = S1
               /\ Len(S1.data) <= Len(data) + 1 /\ Len(S1.media) <= Len(media) + 1
               /\ (q # p /\ registry[p][q].media = 0) => Len(S1.media) = Len(media) + 1)
  /\ [][\A m \in 1..Len(media) :
          LET p == media[m].to IN
          (StreamEvent(m, p) /\ registry[p][media[m].from].media # 0)
            => /\ Len(media') = Len(media) /\ Len(data') = Len(data)
               /\ registry' = registry]_vars

\* r-2 has added r-1 on the stream of r-1's call, in mesh, and the call
\* r-1 placed is still the only one between the two
C14_Witness ==
  \E m \in 1..Len(media) :
    /\ media[m].from = "r-1" /\ media[m].to = "r-2"
    /\ media[m].fs = "live" /\ media[m].ts = "live"
    /\ effTopo["r-2"] = "mesh"
    /\ inRoster(roster["r-2"], "r-1")
    /\ registry["r-2"]["r-1"].media = m
    /\ \A k \in 1..Len(media) : k # m => CreatorId \in {media[k].from, media[k].to}

\* C15: when the registry already holds a media link for P and another call
\* from P comes in, or already holds an open data link for P and another data
\* link with P opens, the registry keeps the link it had.
C15_FirstLinkWins ==
  [][/\ \A m \in 1..Len(media) :
          LET p == media[m].to
              had == registry[p][media[m].from].media
          IN (DeliverCall(m) /\ had # 0) => registry'[p][media[m].from].media = had
     /\ \A d \in 1..Len(data), p \in Peers :
          LET had == registry[p][otherEnd(data[d], p)].data
          IN (DataOpen(d, p) /\ had # 0 /\ had # d /\ isOpen(St, had, p))
               => registry'[p][otherEnd(data[d], p)].data = had]_vars

\* C16: once the cleanup of the creator's session has run, no timer tick runs
\* broadcastPeerList any more and the creator sends no further peer-list.
C16_TimerStopped ==
  [][/\ TimerTick => pstate[CreatorId] # "down"
     /\ pstate[CreatorId] = "down"
          => \A d \in 1..Len(data) :
               CreatorId \in {data[d].from, data[d].to}
                 => \A i \in 1..Len(sentTypes(d, CreatorId)) :
                      sentTypes(d, CreatorId)[i] # "peer-list"]_vars

\* C17: on teardown (unmount or tab close) a peer-disconnect naming the
\* leaving peer goes out on every registered data link that is open, before
\* the links are closed; every registered call and data link is closed by the
\* time the peer handle is destroyed; nothing is sent on a link that is not
\* open.
C17_TeardownOrder ==
  [][\A p \in Peers :
       Leave(p)
         => /\ \A q \in Peers :
                 LET e == registry[p][q] IN
                 /\ e.data # 0
                      => /\ outbox(e.data, p)'
                              = IF deliverable(e.data, p)
                                  THEN Append(outbox(e.data, p), PeerDisconnectMsg(p))
                                  ELSE outbox(e.data, p)
                         /\ endStatus(data'[e.data], p) = "dead"
                 /\ e.media # 0 => endStatus(media'[e.media], p) = "dead"
            /\ \A d \in 1..Len(data) :
                 (p \in {data[d].from, data[d].to}
                    /\ registry[p][otherEnd(data[d], p)].data # d)
                   => outbox(d, p)' = outbox(d, p)
            /\ pstate'[p] = "down"]_vars

\* a session that has left: its farewell is in flight on a data link it has
\* closed, and the call it had with that peer is closed as well
C17_Witness ==
  \E p \in Peers, d \in 1..Len(data), m \in 1..Len(media) :
    /\ pstate[p] = "down"
    /\ p \in {data[d].from, data[d].to}
    /\ endStatus(data[d], p) = "dead"
    /\ \E i \in 1..Len(outbox(d, p)) : outbox(d, p)[i] = PeerDisconnectMsg(p)
    /\ registry[p][otherEnd(data[d], p)] = [media |-> m, data |-> d]
    /\ endStatus(media[m], p) = "dead"

\* C18: a timer tick at the creator sends exactly one peer-list on every
\* registered data link that is open and nothing on any other link; only the
\* creator has the timer, and a non-creator never sends a peer-list.
C18_TickBroadcast ==
  /\ [][TimerTick
          => \A d \in 1..Len(data) :
               /\ CreatorId \in {data[d].from, data[d].to}
                    => sentTypes(d, CreatorId)
                         = IF registry[CreatorId][otherEnd(data[d], CreatorId)].data = d
                              /\ deliverable(d, CreatorId)
                             THEN <<"peer-list">> ELSE <<>>
               /\ \A p \in Joiners : p \in {data[d].from, data[d].to}
                    => outbox(d, p)' = outbox(d, p)]_vars
  /\ [](\A p \in Joiners :
          /\ broadcastPeerList(St, p, roster[p]) = St
          /\ \A d \in 1..Len(data) :
               p \in {data[d].from, data[d].to}
                 => \A i \in 1..Len(outbox(d, p)) : outbox(d, p)[i].type # "peer-list")

\* after the creator has added a participant, a tick's list (the creator
\* alone) is in flight to both joiners, behind the greeting of each
C18_Witness ==
  /\ roster[CreatorId] # <<>>
  /\ ops = 1
  /\ \A p \in Joiners :
       \E d \in 1..Len(data) :
         /\ {data[d].from, data[d].to} = {CreatorId, p}
         /\ Len(outbox(d, CreatorId)) = 2
         /\ outbox(d, CreatorId)[2] = PeerListMsg(<<CreatorId>>)

\* C19: reconnectAll on a non-creator sends one request-peer-list on its
\* registered creator link and creates no link when that link is open, and
\* otherwise dials the creator afresh (a new data link and a new call) and
\* replaces the creator's registry entry with the two; on the creator it
\* sends a peer-list on every open registered data link and creates no link.
C19_ReconnectAll ==
  [][\A p \in Peers :
       ReconnectAll(p)
         => IF isCreator(p)
              THEN /\ Len(data') = Len(data) /\ Len(media') = Len(media)
                   /\ registry' = registry
                   /\ \A d \in 1..Len(data) :
                        p \in {data[d].from, data[d].to}
                          => sentTypes(d, p)
                               = IF registry[p][otherEnd(data[d], p)].data = d /\ deliverable(d, p)
                                   THEN <<"peer-list">> ELSE <<>>
              ELSE LET c == registry[p][CreatorId].data IN
                   IF c # 0 /\ endStatus(data[c], p) \in {"open", "closing"}
                     THEN /\ Len(data') = Len(data) /\ media' = media
                          /\ registry' = registry
                          /\ \A d \in 1..Len(data) :
                               p \in {data[d].from, data[d].to}
                                 => sentTypes(d, p)
                                      = IF d = c /\ deliverable(d, p)
                                          THEN <<"request-peer-list">> ELSE <<>>
                     ELSE /\ data' = Append(data, data'[Len(data')])
                          /\ media' = Append(media, media'[Len(media')])
                          /\ data'[Len(data')].from = p /\ data'[Len(data')].to = CreatorId
                          /\ data'[Len(data')].fs = "connecting"
                          /\ media'[Len(media')].from = p /\ media'[Len(media')].to = CreatorId
                          /\ registry'[p] = [registry[p] EXCEPT ![CreatorId] =
                                               [media |-> Len(media'), data |-> Len(data')]]
                          /\ \A q \in Peers \ {p} : registry'[q] = registry[q]]_vars

\* a joiner that called reconnectAll before its first creator link had
\* opened: it has dialled the creator twice and its registry holds the
\* second data link and the second call
C19_Witness ==
  \E p \in Joiners, d, e \in 1..Len(data), m, n \in 1..Len(media) :
    /\ d < e /\ m < n /\ ops = 1
    /\ data[d].from = p /\ data[d].to = CreatorId
    /\ data[e].from = p /\ data[e].to = CreatorId
    /\ media[m].from = p /\ media[m].to = CreatorId
    /\ media[n].from = p /\ media[n].to = CreatorId
    /\ registry[p][CreatorId] = [media |-> n, data |-> e]

\* C20: the error shown to the user is set only by a failure of the peer
\* handle; an error event of a call or of a data link leaves it as it was.
C20_ErrorOnlyFromPeer ==
  [][/\ \A p \in Peers : error'[p] # error[p] => PeerError(p)
     /\ \A m \in 1..Len(media), p \in Peers : CallError(m, p) => error' = error
     /\ \A d \in 1..Len(data), p \in Peers : DataError(d, p) => error' = error]_vars

\* C21: an error event of a call or of a data link to P is handled like the
\* close of that link: afterwards P is in neither the roster nor the registry.
C21_ErrorLikeClose ==
  [][/\ \A m \in 1..Len(media), p \in Peers :
          CallError(m, p) => absent(p, otherEnd(media[m], p))'
     /\ \A d \in 1..Len(data), p \in Peers :
          DataError(d, p) => absent(p, otherEnd(data[d], p))']_vars

\* the inbox of p's end of d loses its oldest message and nothing else changes
onlyConsumed(d, p) ==
  /\ data' = IF p = data[d].from THEN [data EXCEPT ![d].qtf = Tail(@)]
                                 ELSE [data EXCEPT ![d].qft = Tail(@)]
  /\ media' = media
  /\ roster' = roster /\ registry' = registry /\ error' = error

\* C22: a message of no known type (a chat message included), a peer-list
\* whose peers is not a list, a new-peer or peer-disconnect without peerId
\* and a new-peer naming the receiver leave roster, registry and error as
\* they were, open no link and send nothing.
C22_AnomaliesIgnored ==
  [][\A d \in 1..Len(data) : \A p \in {data[d].from, data[d].to} :
       (inbox(d, p) # <<>> /\ Head(inbox(d, p)) \in Anomalies(p) /\ DataEvent(d, p))
         => onlyConsumed(d, p)]_vars

\* an anomaly has arrived and has been handled in a room where everybody
\* has everybody else in the roster
C22_Witness ==
  /\ ops = 1
  /\ \A d \in 1..Len(data) : data[d].qft = <<>> /\ data[d].qtf = <<>>
  /\ \A p \in Peers : Len(roster[p]) = 2

\* C23: two distinct joiner sessions of one room have distinct peer ids,
\* also when they start at the same clock reading.
C23_JoinerIdsDistinct ==
  \A i, j \in 1..Len(sessions) :
    (i # j /\ sessions[i].roomId = sessions[j].roomId
       /\ ~sessions[i].isCreator /\ ~sessions[j].isCreator)
      => sessions[i].id # sessions[j].id

\* C24: whatever room id was entered, a peer id carries the creator marker
\* exactly when its session has the creator role, so that a room has one id
\* with the marker, its creator's.
C24_OneCreatorMarker ==
  \A i \in 1..Len(sessions) :
    /\ includes(sessions[i].id, Marker) <=> sessions[i].isCreator
    /\ \A j \in 1..Len(sessions) :
         (sessions[i].roomId = sessions[j].roomId
            /\ includes(sessions[i].id, Marker) /\ includes(sessions[j].id, Marker))
           => sessions[i].id = sessions[j].id

\* C25: a participant P enters a peer's roster only in a step that handles a
\* stream event of a call with P; placing or answering a call, a data link
\* opening and the handling of peer-list or new-peer add nobody.
C25_RosterByStream ==
  [][\A p, q \in Peers :
       (~inRoster(roster[p], q) /\ inRoster(roster'[p], q))
         => \E m \in 1..Len(media) :
              /\ p \in {media[m].from, media[m].to}
              /\ otherEnd(media[m], p) = q
              /\ StreamEvent(m, p)]_vars

\* r-1 has dialled r-2 on a new-peer or a peer-list and the call has been
\* answered at both ends, but no stream event has been handled: neither has the
\* other in its roster, which holds the creator only
C25_Witness ==
  \E m \in 1..Len(media) :
    /\ media[m].from = "r-1" /\ media[m].to = "r-2"
    /\ media[m].fs = "live" /\ media[m].ts = "live"
    /\ registry["r-1"]["r-2"].media = m /\ registry["r-2"]["r-1"].media = m
    /\ isOpen(St, registry["r-1"]["r-2"].data, "r-1")
    /\ rosterSet("r-1") = {CreatorId}
    /\ rosterSet("r-2") = {CreatorId}

\* C26: a chat message submitted by p through the send-to-all function of the
\* hook is appended once to p's side of every registered data link that is
\* open, to no other link, with roster and registry unchanged.
C26_SendToAll ==
  [][\A p \in Peers : SendChatMessage(p) =>
       /\ roster' = roster /\ registry' = registry
       /\ \A d \in 1..Len(data) : p \in {data[d].from, data[d].to} =>
            outbox(d, p)' =
              IF (\E q \in Peers : registry[p][q].data = d) /\ isOpen(St, d, p)
                THEN Append(outbox(d, p), ChatMsg)
                ELSE outbox(d, p)]_vars

\* what a handler leaves behind, apart from the topology value that the
\* handlers of a new data link have captured
sansCap(S) == [S EXCEPT !.data = [d \in 1..Len(@) |-> [@[d] EXCEPT !.cap = "mesh"]]]

\* the messages a data link can bring to the creator
CreatorEvents ==
  {RequestPeerListMsg}
    \cup {NewPeerMsg(q) : q \in Joiners}
    \cup {PeerDisconnectMsg(q) : q \in Joiners}
    \cup {PeerListMsg(l) : l \in {<<CreatorId, "r-1">>, <<CreatorId, "r-2", "r-1">>}}

\* C27: setTopology by the creator changes no roster, registry or link and
\* sends nothing; and what the creator does with a message (new-peer,
\* peer-list, request-peer-list, peer-disconnect) is the same under a mesh and
\* under a star topology value, while an inbound stream makes it add the
\* participant and nothing else whatever its topology value is.
C27_CreatorTopologyInert ==
  /\ [][\A t \in Topologies : SwitchTopology(CreatorId, t) =>
          roster' = roster /\ registry' = registry /\ media' = media /\ data' = data]_vars
  /\ [](\A d \in 1..Len(data) : \A msg \in CreatorEvents :
          CreatorId \in {data[d].from, data[d].to} =>
            sansCap(onData(St, d, CreatorId, msg, "mesh"))
              = sansCap(onData(St, d, CreatorId, msg, "star")))
  /\ [](\A q \in Joiners :
          onInboundStream(St, CreatorId, q) =
            IF inRoster(roster[CreatorId], q) THEN St
            ELSE addParticipant(St, CreatorId, q, FALSE))

\* the creator opened and runs under star, r-1 is its participant over open
\* links, and r-2 has a data link to it but no media link yet: a new-peer or a
\* peer-list naming r-2 would make the creator dial
C27_Witness ==
  /\ topology[CreatorId] = "star" /\ effTopo[CreatorId] = "star"
  /\ pstate[CreatorId] = "open"
  /\ inRoster(roster[CreatorId], "r-1")
  /\ isOpen(St, registry[CreatorId]["r-1"].data, CreatorId)
  /\ registry[CreatorId]["r-2"].data # 0
  /\ registry[CreatorId]["r-2"].media = 0

\* the announcements a data link can bring
Announcements ==
  {NewPeerMsg(q) : q \in Peers}
    \cup {PeerListMsg(l) : l \in {<<CreatorId>>, <<CreatorId, "r-1">>,
                                  <<CreatorId, "r-1", "r-2">>, <<CreatorId, "r-2", "r-1">>}}

\* C28: handling a peer-list or a new-peer once more right after it has been
\* handled changes nothing: no link is opened, no message is sent, and roster
\* and registry stay as the first handling left them.  Stated of every
\* announcement a step has handled, and of every announcement that any end of
\* a data link could be handed in any reachable state.
C28_DuplicateHarmless ==
  /\ [][\A d \in 1..Len(data) : \A p \in {data[d].from, data[d].to} :
          (DataEvent(d, p) /\ Head(inbox(d, p)).type \in {"peer-list", "new-peer"})
            => onData(St', d, p, Head(inbox(d, p)),
                      IF p = data[d].from THEN data[d].cap ELSE effTopo[p]) = St']_vars
  /\ [](\A d \in 1..Len(data) : \A p \in {data[d].from, data[d].to} :
          \A msg \in Announcements : \A cap \in Topologies :
            LET once == onData(St, d, p, msg, cap)
            IN onData(once, d, p, msg, cap) = once)

\* r-1 has handled the new-peer that names r-2: its call to r-2 is registered
\* and still unanswered, r-2 is not in its roster, and nothing else is in
\* flight to r-1
C28_Witness ==
  \E m \in 1..Len(media) :
    /\ media[m].from = "r-1" /\ media[m].to = "r-2" /\ media[m].ts = "ringing"
    /\ media[m].via = "establishPeerConnection"
    /\ registry["r-1"]["r-2"].media = m
    /\ ~inRoster(roster["r-1"], "r-2")
    /\ \A d \in 1..Len(data) : "r-1" \in {data[d].from, data[d].to} => inbox(d, "r-1") = <<>>

\* C29: once a joiner has redialled the creator, the close event of a call
\* with the creator that is not the registered one leaves the joiner's
\* registry entry for the creator, and the creator's roster entry, in place.
C29_SupersededCloseKeepsNew ==
  [][\A p \in Joiners : \A m \in 1..Len(media) :
       (/\ MediaCloseEvent(m, p)
        /\ otherEnd(media[m], p) = CreatorId
        /\ registry[p][CreatorId] # NoEntry
        /\ registry[p][CreatorId].media # m)
         => /\ registry'[p][CreatorId] = registry[p][CreatorId]
            /\ inRoster(roster[p], CreatorId) => inRoster(roster'[p], CreatorId)]_vars

\* C30: every participant in a roster has an entry with a media link in the
\* registry of the same peer.
C30_RosterInRegistry ==
  \A p \in Peers : \A i \in 1..Len(roster[p]) :
    registry[p][roster[p][i].id].media # 0

\* a call that neither end has closed
unclosed(l) == l.fs = "live" /\ l.ts \in {"ringing", "live"}

\* C31: between any two peers there is at most one media call that neither
\* end has closed.
C31_OneCallPerPair ==
  \A m, n \in 1..Len(media) :
    (/\ unclosed(media[m]) /\ unclosed(media[n])
     /\ {media[m].from, media[m].to} = {media[n].from, media[n].to})
      => m = n

maySend(p, msg) ==
  /\ msg.type \in {"peer-list", "new-peer"} => isCreator(p)
  /\ ~isCreator(p) => msg.type \in {"request-peer-list", "peer-disconnect"}
  /\ msg.type = "peer-disconnect" => msg.peerId = p

\* every message in flight in S was one its sender may send
wellSent(S) ==
  \A d \in 1..Len(S.data) :
    /\ \A i \in 1..Len(S.data[d].qft) : maySend(S.data[d].from, S.data[d].qft[i])
    /\ \A i \in 1..Len(S.data[d].qtf) : maySend(S.data[d].to, S.data[d].qtf[i])

\* C33: a peer-list or a new-peer in flight was sent by the creator, a
\* non-creator has sent nothing but request-peer-list and peer-disconnect, and
\* a peer-disconnect names its sender; this holds of what is in flight and of
\* what reconnectAll, setTopology and a teardown by any session would add.
C33_OnlyCreatorAnnounces ==
  /\ wellSent(St)
  /\ \A p \in Peers :
       /\ pstate[p] = "open" =>
            /\ wellSent(reconnectAll(St, p))
            /\ wellSent(cleanup(St, p))
            /\ wellSent(handleBeforeUnload(St, p))
       /\ \A t \in Topologies, emit \in BOOLEAN : wellSent(setTopology(St, p, t, emit))
       /\ ~isCreator(p) => broadcastPeerList(St, p, roster[p]) = St

\* r-1 has left and its farewell is in flight to r-2, to which the creator's
\* list or announcement is in flight too
C33_Witness ==
  \E d, e \in 1..Len(data) :
    /\ pstate["r-1"] = "down"
    /\ "r-1" \in {data[d].from, data[d].to} /\ "r-2" \in {data[d].from, data[d].to}
    /\ outbox(d, "r-1") = <<PeerDisconnectMsg("r-1")>>
    /\ data[e].from = "r-2" /\ data[e].to = CreatorId
    /\ outbox(e, CreatorId) # <<>>
    /\ Head(outbox(e, CreatorId)).type \in {"peer-list", "new-peer"}

\* the data links of both joiners to the creator are open at the creator
bothIntroducible ==
  \A j \in Joiners : isOpen(St, registry[CreatorId][j].data, CreatorId)

\* a new-peer naming b is in flight to a on a's link with the creator, or a
\* has handled one and holds a call with b
introduced(a, b) ==
  \/ \E d \in 1..Len(data) :
       /\ data[d].from = a /\ data[d].to = CreatorId
       /\ \E i \in 1..Len(inbox(d, a)) : inbox(d, a)[i] = NewPeerMsg(b)
  \/ registry[a][b].media # 0

C35_OnePendingDial ==
  \A p \in Joiners :
    /\ \A d, e \in 1..Len(data) :
         (/\ data[d].from = p /\ data[d].to = CreatorId /\ data[d].fs = "connecting"
          /\ data[e].from = p /\ data[e].to = CreatorId /\ data[e].fs = "connecting")
           => d = e
    /\ \A m, n \in 1..Len(media) :
         (/\ media[m].from = p /\ media[m].to = CreatorId
          /\ media[m].fs = "live" /\ media[m].ts = "ringing"
          /\ media[n].from = p /\ media[n].to = CreatorId
          /\ media[n].fs = "live" /\ media[n].ts = "ringing")
           => m = n

\* p's own id is no key of its registry and no participant of its roster
noSelf(S, p) == S.registry[p][p] = NoEntry /\ ~inRoster(S.roster[p], p)

\* C36: no peer has its own id in its registry or in its roster, and handling
\* a new-peer that names the receiver, or a peer-list that names every peer,
\* on any data link that can bring it a message keeps it so.
C36_NoSelfEntry ==
  \A p \in Peers :
    /\ noSelf(St, p)
    /\ \A d \in 1..Len(data) : (p \in {data[d].from, data[d].to} /\ isOpen(St, d, p)) =>
         \A msg \in {NewPeerMsg(p), PeerListMsg(<<CreatorId, "r-1", "r-2">>)} :
           \A cap \in Topologies : noSelf(onData(St, d, p, msg, cap), p)

\* the creator's list that names r-1 is the next message r-1 handles
C36_Witness ==
  \E d \in 1..Len(data) :
    /\ data[d].from = "r-1" /\ data[d].to = CreatorId
    /\ pstate["r-1"] = "open"
    /\ inbox(d, "r-1") # <<>>
    /\ Head(inbox(d, "r-1")).type = "peer-list"
    /\ \E i \in 1..Len(Head(inbox(d, "r-1")).peers) : Head(inbox(d, "r-1")).peers[i] = "r-1"

====
